---- MODULE Spec2Model ----
(***************************************************************************)
(* GitlabReporter (vedro_gitlab_reporter/_gitlab_reporter.py) as a state   *)
(* machine: the reporter's three fields, the console it writes to, and one *)
(* action per event handler.                                               *)
(*                                                                         *)
(* Conventions                                                             *)
(*   - a dict is a sequence of entries in insertion order;                 *)
(*   - a ScenarioResult object is identified by its subject;               *)
(*   - timestamps are tenths of a second (15 is 1.5s), None is "None";     *)
(*   - the marks U+2717 and U+2714 are written [x] and [v];                *)
(*   - an uncaught exception ends the run: it is recorded in `error` and   *)
(*     no handler runs afterwards.                                         *)
(***************************************************************************)
EXTENDS Integers, Sequences, FiniteSets, TLC

VARIABLES
    _verbosity,        \* RichReporter._verbosity, read at lines 47 and 50
    _namespace,        \* RichReporter._namespace: the namespace printed last
    _scenario_result,  \* line 16
    _scenario_steps,   \* line 17: dict step name -> set of scope keys
    _prev_step_name,   \* line 18
    console,           \* every record written to self._console so far
    error,             \* the exception that ended the run, or "none"
    observed,          \* history: <<step name, scope keys>> of each step-end
                       \* event handled since the last scenario start
    last,              \* history: the handler that ran last, its event, and
                       \* the console's length and the previous-step pointer
                       \* when it began
    fired              \* history: scenario-started and scenario-failed
                       \* events handled so far

vars == <<_verbosity, _namespace, _scenario_result, _scenario_steps,
          _prev_step_name, console, error, observed, last, fired>>

None == "None"

----------------------------------------------------------------------------
(* Bounds of the model *)

MaxSteps == 3      \* step-end events handled per scenario
MaxRuns == 2       \* scenario-started events
MaxFails == 1      \* scenario-failed events
MaxResults == 1    \* step results carried by a scenario-failed event

StepNames == {"a", "b", "c"}
Keys == {"key", "k2"}
Subjects == {"s1", "s2"}

\* The smaller event sets, used where the variety of names does not matter.
PrintMaxSteps == 1
PrintStepNames == {"a", "b"}
PrintSubjects == {"s1"}

----------------------------------------------------------------------------
(* Helpers on sequences and dicts *)

Range(s) == {s[i] : i \in DOMAIN s}

SeqsUpTo(S, n) == UNION {[1..m -> S] : m \in 0..n}

\* A dict keyed by step name: sequence of [name, delta] in insertion order.
DictKeys(d) == {d[i].name : i \in DOMAIN d}

DictHas(d, k) == k \in DictKeys(d)

DictGet(d, k) == d[CHOOSE i \in DOMAIN d : d[i].name = k].delta

\* A mutant of DictSet: a key set again moves to the end.
DictSetMovesKey(d, k, v) ==
    Append(SelectSeq(d, LAMBDA e : e.name # k), [name |-> k, delta |-> v])

\* A mutant of DictSet: the dict is rebuilt with the one entry.
DictSetDropsOthers(d, k, v) == <<[name |-> k, delta |-> v]>>

\* d[k] = v: an existing key keeps its position, a new key goes last.
DictSet(d, k, v) ==
    IF DictHas(d, k)
    THEN [i \in DOMAIN d |-> IF d[i].name = k THEN [name |-> k, delta |-> v] ELSE d[i]]
    ELSE Append(d, [name |-> k, delta |-> v])

\* A scope is a dict variable name -> value: a sequence of [key, val] with
\* distinct keys.
Scopes ==
    {[i \in DOMAIN ks |-> [key |-> ks[i], val |-> "val"]] :
        ks \in {s \in SeqsUpTo(Keys, Cardinality(Keys)) :
                   \A i, j \in DOMAIN s : i # j => s[i] # s[j]}}

\* scope.keys()
ScopeKeys(scope) == {scope[i].key : i \in DOMAIN scope}

----------------------------------------------------------------------------
(* Console records.  self._console.print(text, style, end) appends one     *)
(* record; a section record keeps the fields of its escape sequence apart. *)
(* raw is the string handed to print, end what print appends to it.        *)

\* The escape character '\033' and the carriage return '\r' of lines 55, 59
ESC == "<ESC>"

CR == "\r"

Out(text, style) ==
    [kind |-> "print", text |-> text, raw |-> text, style |-> style, at |-> 0,
     collapsed |-> FALSE, end |-> "\n"]

\* format_scope(scope): the (key, formatted value) pairs in the scope's
\* order; a string value is formatted as its JSON literal.
format_scope(scope) ==
    [i \in DOMAIN scope |-> <<scope[i].key, "\"" \o scope[i].val \o "\"">>]

\* `x if x else 0` on a timestamp, then int(): whole seconds of tenths.
\* A timestamp that is None is written NoTime.
NoTime == 0 - 1

Truthy(t) == t # NoTime /\ t # 0

\* A mutant of IntSeconds: the timestamp is rounded to the nearest second.
IntSecondsRounded(t) == IF Truthy(t) THEN (t + 5) \div 10 ELSE 0

IntSeconds(t) == IF Truthy(t) THEN t \div 10 ELSE 0

\* The default of the parameter is_collapsed (line 53)
DefaultCollapsed == TRUE

\* A mutant of _print_section_start: the record is printed with print's
\* default end, a newline.
PrintSectionStartWithNewline(name, started_at, is_collapsed) ==
    [kind |-> "section_start", text |-> name,
     raw |-> ESC \o "[0Ksection_start:" \o ToString(started_at) \o ":" \o name
             \o "[collapsed=" \o (IF is_collapsed THEN "true" ELSE "false")
             \o "]" \o CR \o ESC \o "[0K",
     style |-> "none", at |-> started_at, collapsed |-> is_collapsed,
     end |-> "\n"]

_print_section_start(name, started_at, is_collapsed) ==
    [kind |-> "section_start", text |-> name,
     raw |-> ESC \o "[0Ksection_start:" \o ToString(started_at) \o ":" \o name
             \o "[collapsed=" \o (IF is_collapsed THEN "true" ELSE "false")
             \o "]" \o CR \o ESC \o "[0K",
     style |-> "none", at |-> started_at, collapsed |-> is_collapsed,
     end |-> ""]

_print_section_end(name, ended_at) ==
    [kind |-> "section_end", text |-> name,
     raw |-> ESC \o "[0Ksection_end:" \o ToString(ended_at) \o ":" \o name
             \o CR \o ESC \o "[0K",
     style |-> "none", at |-> ended_at, collapsed |-> FALSE, end |-> "\n"]

----------------------------------------------------------------------------
(* Events *)

Statuses == {"passed", "failed", "pending"}

\* The step results a scenario result carries: a step that ran has both
\* timestamps, a failed step its exception.
StepResults(names) ==
    {r \in [step_name : names, status : Statuses,
            started_at : {NoTime, 15}, ended_at : {NoTime, 37},
            exc_info : {None, "AssertionError"}] :
        /\ (r.exc_info # None) <=> (r.status = "failed")
        /\ (r.started_at = NoTime) <=> (r.ended_at = NoTime)}

\* event.scenario_result of a scenario-started event
ScenarioRunEvents(subjects) == [subject : subjects]

\* A step-end event and the scope its scenario result holds at that moment.
StepEndEvents(names) == [step_name : names, scope : Scopes]

\* event.scenario_result of a scenario-failed event
ScenarioFailEvents(subjects, scopes, names, n) ==
    [subject : subjects, scope : scopes,
     step_results : SeqsUpTo(StepResults(names), n)]

\* scenario_result.scenario_namespace: the scenarios of the model share one
Namespace(subject) == "namespace"

----------------------------------------------------------------------------
(* The handlers *)

\* The reporter as constructed (lines 14-18); the verbosity is 0 until the
\* arguments are parsed.
Init ==
    /\ _verbosity = 0
    /\ _namespace = None
    /\ _scenario_result = None
    /\ _scenario_steps = <<>>
    /\ _prev_step_name = None
    /\ console = <<>>
    /\ error = "none"
    /\ observed = <<>>
    /\ last = [op |-> "init", event |-> None, mark |-> 0, prev |-> None]
    /\ fired = [run |-> 0, fail |-> 0]

\* A mutant of RunState: the mapping survives the scenario start.
RunStateKeepsSteps(event) ==
    [result |-> event.subject, steps |-> _scenario_steps, prev |-> None]

\* A mutant of RunState: the previous-step pointer survives the scenario start.
RunStateKeepsPrev(event) ==
    [result |-> event.subject, steps |-> <<>>, prev |-> _prev_step_name]

\* The reporter's fields after lines 27-29.
RunState(event) ==
    [result |-> event.subject, steps |-> <<>>, prev |-> None]

on_scenario_run(event) ==
    /\ error = "none"
    /\ IF Namespace(event.subject) # _namespace
       THEN /\ _namespace' = Namespace(event.subject)
            /\ console' = Append(console, Out("* " \o Namespace(event.subject), "bold"))
       ELSE UNCHANGED <<_namespace, console>>
    /\ _scenario_result' = RunState(event).result
    /\ _scenario_steps' = RunState(event).steps
    /\ _prev_step_name' = RunState(event).prev
    /\ observed' = <<>>
    /\ last' = [op |-> "on_scenario_run", event |-> event, mark |-> Len(console),
                prev |-> _prev_step_name]
    /\ fired' = [fired EXCEPT !.run = @ + 1]
    /\ UNCHANGED <<_verbosity, error>>

\* A mutant of IsScenarioResult: the assertion of line 32 is switched off.
IsScenarioResultUnchecked(result) == TRUE

\* isinstance(self._scenario_result, ScenarioResult), asserted at line 32:
\* the field holds a scenario result from the first scenario start on.
IsScenarioResult(result) == result # None

\* The delta on_step_end stores for this step (lines 36-40).
StepDelta(step_scope, steps, prev) ==
    IF prev # None
    THEN step_scope \ DictGet(steps, prev)
    ELSE step_scope

on_step_end(event) ==
    /\ error = "none"
    /\ last' = [op |-> "on_step_end", event |-> event, mark |-> Len(console),
                prev |-> _prev_step_name]
    /\ IF ~IsScenarioResult(_scenario_result)
       THEN /\ error' = "AssertionError"
            /\ UNCHANGED <<_scenario_steps, _prev_step_name, observed>>
       ELSE LET step_scope == ScopeKeys(event.scope)
                step_name == event.step_name
            IN /\ _scenario_steps' =
                     DictSet(_scenario_steps, step_name,
                             StepDelta(step_scope, _scenario_steps, _prev_step_name))
               /\ _prev_step_name' = step_name
               /\ observed' = Append(observed, <<step_name, step_scope>>)
               /\ UNCHANGED error
    /\ UNCHANGED <<_verbosity, _namespace, _scenario_result, console, fired>>

\* A mutant of PrintScope: the step's delta is looked up before the loop,
\* also when the scope holds no key.
RECURSIVE PrintScopeLooksUpFirst(_, _, _, _)
PrintScopeLooksUpFirst(entries, i, steps, step_name) ==
    IF ~DictHas(steps, step_name)
    THEN [out |-> <<>>, err |-> "KeyError"]
    ELSE IF i > Len(entries)
    THEN [out |-> <<>>, err |-> "none"]
    ELSE LET key == entries[i][1]
             val == entries[i][2]
             rest == PrintScopeLooksUpFirst(entries, i + 1, steps, step_name)
             here == IF key \in DictGet(steps, step_name)
                     THEN <<Out("       " \o key \o ": ", "blue"), Out(val, "none")>>
                     ELSE <<>>
         IN [out |-> here \o rest.out, err |-> rest.err]

\* A mutant of PrintScope: every key of the scope is printed, whatever the
\* step's delta holds.
RECURSIVE PrintScopeEveryKey(_, _, _, _)
PrintScopeEveryKey(entries, i, steps, step_name) ==
    IF i > Len(entries)
    THEN [out |-> <<>>, err |-> "none"]
    ELSE IF ~DictHas(steps, step_name)
    THEN [out |-> <<>>, err |-> "KeyError"]
    ELSE LET rest == PrintScopeEveryKey(entries, i + 1, steps, step_name)
         IN [out |-> <<Out("       " \o entries[i][1] \o ": ", "blue"),
                       Out(entries[i][2], "none")>> \o rest.out,
             err |-> rest.err]

\* One step of the loop of _print_steps (lines 74-77) from entry i on: the
\* records printed, and "KeyError" when the lookup of line 75 fails.
RECURSIVE PrintScope(_, _, _, _)
PrintScope(entries, i, steps, step_name) ==
    IF i > Len(entries)
    THEN [out |-> <<>>, err |-> "none"]
    ELSE IF ~DictHas(steps, step_name)
    THEN [out |-> <<>>, err |-> "KeyError"]
    ELSE LET key == entries[i][1]
             val == entries[i][2]
             rest == PrintScope(entries, i + 1, steps, step_name)
             here == IF key \in DictGet(steps, step_name)
                     THEN <<Out("       " \o key \o ": ", "blue"), Out(val, "none")>>
                     ELSE <<>>
         IN [out |-> here \o rest.out, err |-> rest.err]

\* A mutant of PrintStep: the section is closed by another section-start.
PrintStepClosesWithStart(step_result, scope, steps) ==
    IF step_result.status \notin {"passed", "failed"}
    THEN [out |-> <<>>, err |-> "none"]
    ELSE LET section_name ==
                 IF step_result.status = "passed"
                 THEN "    [v] " \o step_result.step_name
                 ELSE "    [x] " \o step_result.step_name
             start == _print_section_start(section_name,
                                           IntSeconds(step_result.started_at),
                                           DefaultCollapsed)
             body == PrintScope(format_scope(scope), 1, steps, step_result.step_name)
             stop == _print_section_start(section_name,
                                          IntSeconds(step_result.ended_at),
                                          DefaultCollapsed)
         IN IF body.err # "none"
            THEN [out |-> <<start>> \o body.out, err |-> body.err]
            ELSE [out |-> <<start>> \o body.out \o <<stop>>, err |-> "none"]

\* The body of the loop of _print_steps for one step result (lines 64-80).
PrintStep(step_result, scope, steps) ==
    IF step_result.status \notin {"passed", "failed"}
    THEN [out |-> <<>>, err |-> "none"]
    ELSE LET section_name ==
                 IF step_result.status = "passed"
                 THEN "    [v] " \o step_result.step_name
                 ELSE "    [x] " \o step_result.step_name
             start == _print_section_start(section_name,
                                           IntSeconds(step_result.started_at),
                                           DefaultCollapsed)
             body == PrintScope(format_scope(scope), 1, steps, step_result.step_name)
             stop == _print_section_end(section_name,
                                        IntSeconds(step_result.ended_at))
         IN IF body.err # "none"
            THEN [out |-> <<start>> \o body.out, err |-> body.err]
            ELSE [out |-> <<start>> \o body.out \o <<stop>>, err |-> "none"]

\* _print_steps from step result i on; an exception ends the loop.
RECURSIVE PrintStepsFrom(_, _, _, _)
PrintStepsFrom(step_results, i, scope, steps) ==
    IF i > Len(step_results)
    THEN [out |-> <<>>, err |-> "none"]
    ELSE LET one == PrintStep(step_results[i], scope, steps)
         IN IF one.err # "none"
            THEN one
            ELSE LET rest == PrintStepsFrom(step_results, i + 1, scope, steps)
                 IN [out |-> one.out \o rest.out, err |-> rest.err]

_print_steps(scenario_result, steps) ==
    PrintStepsFrom(scenario_result.step_results, 1, scenario_result.scope, steps)

RECURSIVE PrintExceptionsFrom(_, _)
PrintExceptionsFrom(step_results, i) ==
    IF i > Len(step_results)
    THEN <<>>
    ELSE (IF step_results[i].exc_info = None
          THEN <<>>
          ELSE <<Out("Traceback: " \o step_results[i].exc_info, "yellow")>>)
         \o PrintExceptionsFrom(step_results, i + 1)

_print_exceptions(scenario_result) ==
    [out |-> PrintExceptionsFrom(scenario_result.step_results, 1), err |-> "none"]

\* A mutant of PrintsSteps: the lowest level prints the steps too.
PrintsStepsFromZero(verbosity) == verbosity <= 1

\* A mutant of PrintsExceptions: the middle level prints exceptions too.
PrintsExceptionsFromOne(verbosity) == verbosity >= 1

\* Which block follows the failure line (lines 47-51).
PrintsSteps(verbosity) == verbosity = 1

PrintsExceptions(verbosity) == verbosity > 1

\* Everything on_scenario_fail prints, and the exception that ended it.
ScenarioFailOutput(verbosity, steps, event) ==
    LET head == <<Out(" [x] " \o event.subject, "red")>>
        block1 == IF PrintsSteps(verbosity)
                  THEN _print_steps(event, steps)
                  ELSE [out |-> <<>>, err |-> "none"]
        block2 == IF block1.err = "none" /\ PrintsExceptions(verbosity)
                  THEN _print_exceptions(event)
                  ELSE [out |-> <<>>, err |-> "none"]
    IN [out |-> head \o block1.out \o block2.out,
        err |-> IF block1.err # "none" THEN block1.err ELSE block2.err]

on_scenario_fail(event) ==
    /\ error = "none"
    /\ LET res == ScenarioFailOutput(_verbosity, _scenario_steps, event)
       IN /\ console' = console \o res.out
          /\ error' = res.err
    /\ last' = [op |-> "on_scenario_fail", event |-> event, mark |-> Len(console),
                prev |-> _prev_step_name]
    /\ fired' = [fired EXCEPT !.fail = @ + 1]
    /\ UNCHANGED <<_verbosity, _namespace, _scenario_result, _scenario_steps,
                   _prev_step_name, observed>>

----------------------------------------------------------------------------
(* Configuration.  The plugin that turns the parsed arguments into the     *)
(* reporter's verbosity is not part of the listed sources; it is modelled  *)
(* from the specification: an explicit collapsible mode, when present,     *)
(* decides, otherwise the integer verbosity does.                          *)

MaxVerbose == 2

Modes == {"none", "steps", "vars"}

ParsedArgs == [verbose : 0..MaxVerbose, gitlab_collapsable : Modes \cup {None}]

ModeLevel(mode) ==
    CASE mode = "none" -> 0
      [] mode = "steps" -> 1
      [] mode = "vars" -> 2

\* A mutant of Normalize: the explicit mode is ignored.
NormalizeIgnoresMode(a) == a.verbose

Normalize(a) ==
    IF a.gitlab_collapsable # None
    THEN ModeLevel(a.gitlab_collapsable)
    ELSE a.verbose

on_arg_parsed(event) ==
    /\ last.op = "init"
    /\ _verbosity' = Normalize(event)
    /\ last' = [op |-> "on_arg_parsed", event |-> event, mark |-> Len(console),
                prev |-> _prev_step_name]
    /\ UNCHANGED <<_namespace, _scenario_result, _scenario_steps,
                   _prev_step_name, console, error, observed, fired>>

----------------------------------------------------------------------------
(* The dispatcher fires the events in any order.  Spec follows the step  *)
(* bookkeeping over several scenarios, at the default verbosity and with   *)
(* failure events that carry no step result; SpecPrint follows one         *)
(* configured scenario up to its failure event, with every shape of        *)
(* failure event.                                                          *)

Next ==
    \/ \E event \in ScenarioRunEvents(Subjects) :
          fired.run < MaxRuns /\ on_scenario_run(event)
    \/ \E event \in StepEndEvents(StepNames) :
          Len(observed) < MaxSteps /\ on_step_end(event)
    \/ \E event \in ScenarioFailEvents(PrintSubjects, {<<>>}, StepNames, 0) :
          fired.fail < MaxFails /\ on_scenario_fail(event)

Spec == Init /\ [][Next]_vars

NextPrint ==
    \/ \E event \in ParsedArgs :
          fired.fail = 0 /\ on_arg_parsed(event)
    \/ \E event \in ScenarioRunEvents(PrintSubjects) :
          fired.fail = 0 /\ fired.run = 0 /\ on_scenario_run(event)
    \/ \E event \in StepEndEvents(PrintStepNames) :
          fired.fail = 0 /\ Len(observed) < PrintMaxSteps /\ on_step_end(event)
    \/ \E event \in ScenarioFailEvents(PrintSubjects, Scopes, PrintStepNames, MaxResults) :
          fired.fail = 0 /\ on_scenario_fail(event)

SpecPrint == Init /\ [][NextPrint]_vars

\* A third specification for the sections of step-detail printing: the
\* reporter at the verbosity that prints them, a scenario with up to
\* SectionMaxSteps step-end events and a failure event with up to
\* SectionMaxResults timed step results, over scopes that grow key by key.
\* The scenario starts once the arguments are parsed, and the scope of the
\* failure event is the scope the last step-end event saw (it is the scope
\* of the same scenario result).
SectionMaxSteps == 2

SectionMaxResults == 2

SectionScopes == {s \in Scopes : s = <<>> \/ s[1].key = "key"}

NextSections ==
    \/ \E event \in ParsedArgs :
          Normalize(event) = 1 /\ on_arg_parsed(event)
    \/ \E event \in ScenarioRunEvents(PrintSubjects) :
          /\ fired.fail = 0 /\ fired.run = 0 /\ last.op = "on_arg_parsed"
          /\ on_scenario_run(event)
    \/ \E event \in StepEndEvents(PrintStepNames) :
          /\ fired.fail = 0 /\ Len(observed) < SectionMaxSteps
          /\ event.scope \in SectionScopes
          /\ on_step_end(event)
    \/ \E event \in ScenarioFailEvents(PrintSubjects, SectionScopes, PrintStepNames,
                                       SectionMaxResults) :
          /\ fired.fail = 0
          /\ last.op = "on_step_end" => event.scope = last.event.scope
          /\ \A i \in DOMAIN event.step_results :
                event.step_results[i].started_at # NoTime
          /\ on_scenario_fail(event)

SpecSections == Init /\ [][NextSections]_vars

----------------------------------------------------------------------------
(* Properties of the step bookkeeping (checked under Spec) *)

\* The step-end events handled since the last scenario start
StepEndNames == [i \in DOMAIN observed |-> observed[i][1]]

StepEndScopes == [i \in DOMAIN observed |-> observed[i][2]]

DistinctNames == \A i, j \in DOMAIN observed : i # j => StepEndNames[i] # StepEndNames[j]

ScopeOnlyGrows ==
    \A i \in DOMAIN observed : i > 1 => StepEndScopes[i - 1] \subseteq StepEndScopes[i]

\* The steps whose recorded delta holds key k
StepsHolding(k) == {i \in DOMAIN _scenario_steps : k \in _scenario_steps[i].delta}

\* C1: after a scenario start and step-end events for steps with distinct
\* names, the scope only growing, each step's delta is the scope seen at its
\* step-end minus the scope seen at the previous step-end (the whole scope for
\* the first step); so every key of the final scope is in the delta of exactly
\* one step, the first step after which it appears.
C1_DeltaIsScopeGrowth ==
    (Len(observed) > 0 /\ DistinctNames /\ ScopeOnlyGrows) =>
        /\ \A i \in DOMAIN observed :
              DictGet(_scenario_steps, StepEndNames[i]) =
                  StepEndScopes[i] \ (IF i = 1 THEN {} ELSE StepEndScopes[i - 1])
        /\ \A k \in StepEndScopes[Len(observed)] :
              \E i \in DOMAIN observed :
                  /\ StepsHolding(k) = {i}
                  /\ k \in StepEndScopes[i]
                  /\ \A j \in 1..(i - 1) : k \notin StepEndScopes[j]

\* C2: within one scenario the deltas of different step names are pairwise
\* disjoint, whatever the scope was at each step-end event.
C2_DeltasDisjoint ==
    \A i, j \in DOMAIN _scenario_steps :
        i # j => _scenario_steps[i].delta \cap _scenario_steps[j].delta = {}

\* The names of a sequence in the order of their first occurrence
RECURSIVE FirstOccurrences(_)
FirstOccurrences(names) ==
    IF names = <<>>
    THEN <<>>
    ELSE LET front == FirstOccurrences(SubSeq(names, 1, Len(names) - 1))
             x == names[Len(names)]
         IN IF x \in Range(front) THEN front ELSE Append(front, x)

MappingNames == [i \in DOMAIN _scenario_steps |-> _scenario_steps[i].name]

\* C4 as stated: after a scenario start and N step-end events the mapping has
\* exactly N entries, one per event, in the order of the events.
C4_OneEntryPerStepEnd ==
    _scenario_result # None => MappingNames = StepEndNames

\* C4, amended: the mapping has one entry per distinct step name of the N
\* step-end events, in the order in which each name was first received; it
\* has N entries exactly when the N names are distinct.
C4_OneEntryPerDistinctName ==
    _scenario_result # None =>
        /\ MappingNames = FirstOccurrences(StepEndNames)
        /\ (Len(_scenario_steps) = Len(observed)) <=> DistinctNames

C4_Witness ==
    /\ Len(observed) = MaxSteps
    /\ ~DistinctNames
    /\ Len(_scenario_steps) = 2
    /\ MappingNames[1] = StepEndNames[1]
    /\ StepEndNames[1] = StepEndNames[MaxSteps]

\* C9: after any history, a scenario start leaves the mapping empty, the
\* previous-step pointer none and the stored scenario result that of the
\* event; the first delta of the new scenario is then the whole scope seen
\* at that step-end, whatever earlier scenarios recorded.
C9_ScenarioRunResets ==
    /\ last.op = "on_scenario_run" =>
          /\ _scenario_steps = <<>>
          /\ _prev_step_name = None
          /\ _scenario_result = last.event.subject
    /\ (last.op = "on_step_end" /\ error = "none" /\ Len(observed) = 1) =>
          _scenario_steps = <<[name |-> StepEndNames[1], delta |-> StepEndScopes[1]]>>

C9_Witness ==
    /\ last.op = "on_scenario_run"
    /\ fired.run = 2
    /\ last.prev # None
    /\ fired.fail = 1
    /\ _scenario_result = last.event.subject

----------------------------------------------------------------------------
(* Properties of the output (checked under SpecPrint) *)

\* What the handler that ran last wrote
LastOut == SubSeq(console, last.mark + 1, Len(console))

AfterFail == last.op = "on_scenario_fail"

IsSectionStart(r) == r.kind = "section_start"

IsSectionEnd(r) == r.kind = "section_end"

FailureLine(event) == Out(" [x] " \o event.subject, "red")

\* C3: section-start and section-end records are paired in the stream: each
\* section-start is followed by a section-end of its own with the same name
\* (as many section-ends of a name follow a section-start as there are
\* section-starts of that name from it on).
C3_SectionsPaired ==
    \A i \in DOMAIN console :
        IsSectionStart(console[i]) =>
            Cardinality({j \in DOMAIN console :
                            /\ j > i
                            /\ IsSectionEnd(console[j])
                            /\ console[j].text = console[i].text})
            = Cardinality({j \in DOMAIN console :
                            /\ j >= i
                            /\ IsSectionStart(console[j])
                            /\ console[j].text = console[i].text})

\* C5: at verbosity 0 a scenario-failed event writes exactly one record, the
\* red failure line with the subject, and no section record, whatever the
\* steps, the scope and the recorded deltas are.
C5_Verbosity0OnlyFailureLine ==
    (AfterFail /\ _verbosity = 0) =>
        /\ LastOut = <<FailureLine(last.event)>>
        /\ \A i \in DOMAIN LastOut :
              ~IsSectionStart(LastOut[i]) /\ ~IsSectionEnd(LastOut[i])
        /\ error = "none"

C5_Witness ==
    /\ AfterFail
    /\ _verbosity = 0
    /\ Len(last.event.step_results) = MaxResults
    /\ last.event.step_results[1].status = "failed"
    /\ last.event.scope # <<>>
    /\ DictHas(_scenario_steps, last.event.step_results[1].step_name)
    /\ Len(LastOut) = 1

\* C6: at verbosity 1 a scenario-failed event with one failed step (started
\* at 1.5s, ended at 3.7s, nothing in the scope) writes the failure line, a
\* collapsed section-start at 1, a separate red line with the step name, and
\* a section-end at 3 with the section-start's identifier.
C6_Verbosity1StepLine ==
    (/\ AfterFail
     /\ _verbosity = 1
     /\ last.event.scope = <<>>
     /\ Len(last.event.step_results) = 1
     /\ last.event.step_results[1].status = "failed"
     /\ last.event.step_results[1].started_at = 15
     /\ last.event.step_results[1].ended_at = 37) =>
        /\ Len(LastOut) = 4
        /\ LastOut[1] = FailureLine(last.event)
        /\ IsSectionStart(LastOut[2])
        /\ LastOut[2].at = 1
        /\ LastOut[2].collapsed
        /\ LastOut[3] = Out("    [x] " \o last.event.step_results[1].step_name, "red")
        /\ IsSectionEnd(LastOut[4])
        /\ LastOut[4].at = 3
        /\ LastOut[4].text = LastOut[2].text

\* C7: at verbosity 2, after a scenario start and the step-end of one failed
\* step whose delta is the whole scope {key: val}, the scenario-failed event
\* writes the failure line, the step line, a collapsed section-start at 0, a
\* blue "key: " line, the value line and a section-end at 0 with the same
\* identifier.
C7_Verbosity2ScopeSection ==
    (/\ AfterFail
     /\ _verbosity = 2
     /\ Len(last.event.step_results) = 1
     /\ last.event.step_results[1].status = "failed"
     /\ last.event.step_results[1].started_at = NoTime
     /\ last.event.step_results[1].ended_at = NoTime
     /\ last.event.scope = <<[key |-> "key", val |-> "val"]>>
     /\ _scenario_steps = <<[name |-> last.event.step_results[1].step_name,
                             delta |-> {"key"}]>>) =>
        /\ Len(LastOut) = 6
        /\ LastOut[1] = FailureLine(last.event)
        /\ LastOut[2].kind = "print" /\ LastOut[2].style = "red"
        /\ IsSectionStart(LastOut[3]) /\ LastOut[3].at = 0 /\ LastOut[3].collapsed
        /\ LastOut[4].kind = "print" /\ LastOut[4].style = "blue"
        /\ LastOut[5] = Out("\"val\"", "none")
        /\ IsSectionEnd(LastOut[6]) /\ LastOut[6].at = 0
        /\ LastOut[6].text = LastOut[3].text

\* The records of the two blocks that may follow the failure line
IsStepsRecord(r) ==
    \/ IsSectionStart(r)
    \/ IsSectionEnd(r)
    \/ r.kind = "print" /\ r.style \in {"blue", "none"}

IsExceptionRecord(r) == r.kind = "print" /\ r.style = "yellow"

HasStepsBlock == \E i \in 2..Len(LastOut) : IsStepsRecord(LastOut[i])

HasExceptionBlock == \E i \in 2..Len(LastOut) : IsExceptionRecord(LastOut[i])

ModeOfVerbosity(k) ==
    CASE k = 0 -> "none"
      [] k = 1 -> "steps"
      [] OTHER -> "vars"

----------------------------------------------------------------------------
(* Properties of the step-end handler (checked under Spec) *)

\* C11: a step-end event handled while no scenario result is active (before
\* the first scenario start) fails the assertion: the handler ends with an
\* AssertionError, records no delta, and leaves the mapping and the
\* previous-step pointer as they were.
C11_StepEndWithoutScenarioAborts ==
    [][(_scenario_result = None /\ last'.op = "on_step_end") =>
          /\ error' = "AssertionError"
          /\ _scenario_steps' = _scenario_steps
          /\ _prev_step_name' = _prev_step_name
          /\ _prev_step_name' # last'.event.step_name]_vars

C11_Witness ==
    /\ last.op = "on_step_end"
    /\ _scenario_result = None
    /\ error = "AssertionError"
    /\ _scenario_steps = <<>>
    /\ last.event.scope # <<>>

\* C13: handling a step-end event prints nothing and changes only the
\* mapping's entry for the event's step name and the previous-step pointer,
\* which becomes that name; the deltas of the other steps and the stored
\* scenario result stay as they were.
C13_StepEndFrame ==
    [][(_scenario_result # None /\ last'.op = "on_step_end") =>
          LET step_name == last'.event.step_name
          IN /\ console' = console
             /\ _scenario_result' = _scenario_result
             /\ _verbosity' = _verbosity /\ _namespace' = _namespace
             /\ error' = "none"
             /\ _prev_step_name' = step_name
             /\ DictHas(_scenario_steps', step_name)
             /\ DictKeys(_scenario_steps') = DictKeys(_scenario_steps) \cup {step_name}
             /\ \A n \in DictKeys(_scenario_steps) \ {step_name} :
                   DictGet(_scenario_steps', n) = DictGet(_scenario_steps, n)]_vars

\* A step-end event handled while two other steps have deltas on record
C13_Witness ==
    /\ last.op = "on_step_end"
    /\ Len(_scenario_steps) = 3
    /\ _prev_step_name = "c"
    /\ \E n \in DictKeys(_scenario_steps) \ {"c"} : DictGet(_scenario_steps, n) # {}

----------------------------------------------------------------------------
(* Lifetime of the mapping (checked under Spec) *)

\* C17: the mapping lives for one scenario only: once the scenario-failed
\* event has been handled the mapping and the previous-step pointer have
\* been discarded, the reporter holds neither.
C17_DiscardedAtScenarioEnd ==
    AfterFail => (_scenario_steps = <<>> /\ _prev_step_name = None)

\* C17, as the code has it: handling the scenario-failed event leaves the
\* mapping and the previous-step pointer as they were; it is the next
\* scenario start that discards them.
C17_KeptUntilNextScenarioRun ==
    [][/\ last'.op = "on_scenario_fail" =>
             /\ _scenario_steps' = _scenario_steps
             /\ _prev_step_name' = _prev_step_name
       /\ last'.op = "on_scenario_run" =>
             /\ _scenario_steps' = <<>>
             /\ _prev_step_name' = None]_vars

\* A scenario start that discards what the failed scenario before it left
C17_Witness ==
    /\ last.op = "on_scenario_run"
    /\ fired.fail = 1
    /\ last.prev # None
    /\ _scenario_steps = <<>>
    /\ _prev_step_name = None

\* C18: the previous-step pointer is none or a key of the mapping, and it is
\* none exactly when the mapping is empty; so the lookup of the previous
\* step's delta in the step-end handler always finds its key.
C18_PrevIsKeyOfMapping ==
    /\ _prev_step_name # None => DictHas(_scenario_steps, _prev_step_name)
    /\ _prev_step_name = None <=> _scenario_steps = <<>>
    /\ (last.op = "on_step_end" /\ error = "none" /\ last.prev # None) =>
          last.prev \in DictKeys(_scenario_steps)

\* A step-end event that looked up the delta of the previous step and left
\* the pointer on a key that is not the latest entry of the mapping
C18_Witness ==
    /\ last.op = "on_step_end" /\ error = "none"
    /\ last.prev = "b" /\ _prev_step_name = "a"
    /\ Len(_scenario_steps) = 2
    /\ _scenario_steps[1].name = "a"

----------------------------------------------------------------------------
(* Properties of the section records (checked under SpecPrint) *)

\* What reaches the terminal for one console record
Written(r) == r.raw \o r.end

----------------------------------------------------------------------------
(* Properties of step-detail printing (checked under SpecPrint) *)

\* The step results of the failure event that are passed or failed
PrintableSteps ==
    SelectSeq(last.event.step_results, LAMBDA r : r.status \in {"passed", "failed"})

\* The name of the section of a passed or failed step result
SectionName(r) ==
    (IF r.status = "passed" THEN "    [v] " ELSE "    [x] ") \o r.step_name

\* The section records the last handler wrote, in order
SectionRecords == SelectSeq(LastOut, LAMBDA r : r.kind # "print")

\* C14: step-detail printing writes one section, a section-start then a
\* section-end, for every passed or failed step result, in the order of the
\* step results, and nothing for the other steps: the section records are
\* start and end of the first such step, start and end of the second, ...
C14_OneSectionPerStep ==
    (AfterFail /\ _verbosity = 1) =>
        /\ Len(SectionRecords) = 2 * Len(PrintableSteps)
        /\ \A n \in DOMAIN PrintableSteps :
              /\ IsSectionStart(SectionRecords[2 * n - 1])
              /\ SectionRecords[2 * n - 1].text = SectionName(PrintableSteps[n])
              /\ IsSectionEnd(SectionRecords[2 * n])
              /\ SectionRecords[2 * n].text = SectionName(PrintableSteps[n])

\* The positions of the section-starts in the last handler's output
StartIdx ==
    SelectSeq([i \in DOMAIN LastOut |-> i], LAMBDA i : IsSectionStart(LastOut[i]))

\* The records between the n-th section-start and the next section record
SectionBody(n) ==
    LET later == {j \in DOMAIN LastOut : j > StartIdx[n] /\ LastOut[j].kind # "print"}
        limit == IF later = {} THEN Len(LastOut) + 1
                 ELSE CHOOSE j \in later : \A k \in later : j <= k
    IN SubSeq(LastOut, StartIdx[n] + 1, limit - 1)

\* The delta on record for a step name; none on record holds no key
RecordedDelta(step_name) ==
    IF DictHas(_scenario_steps, step_name)
    THEN DictGet(_scenario_steps, step_name)
    ELSE {}

\* The entries of the final scope whose key is in the delta of a step name
ScopeEntriesOf(step_name) ==
    SelectSeq(last.event.scope, LAMBDA e : e.key \in RecordedDelta(step_name))

\* C15: inside the section of a step the keys printed are exactly the keys
\* of the scenario's final scope that are in the delta recorded for the
\* step's name, in the scope's order, each as a blue key line immediately
\* followed by a line with its value; no key line is written elsewhere.
C15_ScopeKeysOfDelta ==
    (AfterFail /\ _verbosity = 1) =>
        /\ Len(StartIdx) <= Len(PrintableSteps)
        /\ \A n \in DOMAIN StartIdx :
              LET entries == ScopeEntriesOf(PrintableSteps[n].step_name)
                  body == SectionBody(n)
              IN /\ Len(body) = 2 * Len(entries)
                 /\ \A j \in DOMAIN entries :
                       /\ body[2 * j - 1] = Out("       " \o entries[j].key \o ": ", "blue")
                       /\ body[2 * j] = Out("\"" \o entries[j].val \o "\"", "none")
        /\ \A i \in DOMAIN LastOut :
              LastOut[i].style = "blue" =>
                  \E n \in DOMAIN StartIdx :
                      i > StartIdx[n] /\ i <= StartIdx[n] + Len(SectionBody(n))

\* A section that prints one key of a two-key scope and leaves the other out
C15_Witness ==
    /\ AfterFail /\ _verbosity = 1 /\ error = "none"
    /\ Len(last.event.scope) = 2
    /\ Len(StartIdx) = 1
    /\ RecordedDelta(PrintableSteps[1].step_name) = {"k2"}
    /\ Len(SectionBody(1)) = 2
    /\ SectionBody(1)[1].text = "       k2: "

\* The section-end that closes the n-th section, if one was written
HasSectionEnd(n) == StartIdx[n] + Len(SectionBody(n)) < Len(LastOut)

SectionEndOf(n) == LastOut[StartIdx[n] + Len(SectionBody(n)) + 1]

\* A timestamp in tenths of a second cut to whole seconds, 0 when missing
WholeSeconds(t) == IF t = NoTime THEN 0 ELSE (t - (t % 10)) \div 10

\* C16: the section-start of a step carries the step's start time cut to
\* whole seconds and its section-end the step's end time cut to whole
\* seconds; a missing start or end time is written as 0, and a missing time
\* never makes printing fail (the only failure there is is the lookup of a
\* step name with no delta on record).
C16_WholeSecondTimestamps ==
    (AfterFail /\ _verbosity = 1) =>
        /\ \A n \in DOMAIN StartIdx :
              /\ LastOut[StartIdx[n]].at = WholeSeconds(PrintableSteps[n].started_at)
              /\ HasSectionEnd(n) =>
                    SectionEndOf(n).at = WholeSeconds(PrintableSteps[n].ended_at)
        /\ error # "none" =>
              /\ error = "KeyError"
              /\ last.event.scope # <<>>
              /\ \E n \in DOMAIN PrintableSteps :
                    ~DictHas(_scenario_steps, PrintableSteps[n].step_name)

\* A section written with both times, and one written with none
C16_Witness ==
    /\ AfterFail /\ _verbosity = 1 /\ error = "none"
    /\ Len(StartIdx) = 1
    /\ PrintableSteps[1].started_at = 15 /\ LastOut[StartIdx[1]].at = 1
    /\ PrintableSteps[1].ended_at = 37 /\ SectionEndOf(1).at = 3
    /\ Len(SectionBody(1)) = 2

C16_WitnessMissing ==
    /\ AfterFail /\ _verbosity = 1 /\ error = "none"
    /\ Len(StartIdx) = 1
    /\ PrintableSteps[1].started_at = NoTime /\ LastOut[StartIdx[1]].at = 0
    /\ PrintableSteps[1].ended_at = NoTime /\ SectionEndOf(1).at = 0

----------------------------------------------------------------------------
(* Properties of the sections of step-detail printing (checked under       *)
(* SpecSections)                                                           *)

EveryPrintableStepEnded ==
    \A n \in DOMAIN PrintableSteps :
        PrintableSteps[n].step_name \in Range(StepEndNames)

\* C20: at verbosity 1 the scenario-failed handler ends without a failed
\* lookup and closes every section it opened whenever each passed or failed
\* step of the event had a step-end event handled since the last scenario
\* start; the name of a step without one is looked up (and the lookup
\* fails) only when the final scope holds a key.
C20_NoLookupFailureWhenStepsEnded ==
    (AfterFail /\ _verbosity = 1) =>
        /\ EveryPrintableStepEnded =>
              /\ error = "none"
              /\ Len(StartIdx) = Len(PrintableSteps)
              /\ \A n \in DOMAIN StartIdx :
                    /\ HasSectionEnd(n)
                    /\ IsSectionEnd(SectionEndOf(n))
                    /\ SectionEndOf(n).text = LastOut[StartIdx[n]].text
        /\ last.event.scope = <<>> => error = "none"
        /\ error # "none" =>
              /\ error = "KeyError"
              /\ ~EveryPrintableStepEnded
              /\ last.event.scope # <<>>

\* A failure event with two steps on record, printed with both sections
\* closed
C20_Witness ==
    /\ AfterFail /\ _verbosity = 1 /\ error = "none"
    /\ last.event.scope # <<>>
    /\ Len(PrintableSteps) = 2
    /\ PrintableSteps[1].step_name # PrintableSteps[2].step_name
    /\ EveryPrintableStepEnded
    /\ Len(StartIdx) = 2
    /\ HasSectionEnd(1) /\ HasSectionEnd(2)

\* A failure event with a step never ended and an empty scope: no lookup
C20_WitnessEmptyScope ==
    /\ AfterFail /\ _verbosity = 1 /\ error = "none"
    /\ last.event.scope = <<>>
    /\ ~EveryPrintableStepEnded
    /\ Len(StartIdx) = Len(PrintableSteps)

====
